---- MODULE Spec2Model ----
(***************************************************************************)
(* geosvg: geographic coordinates -> Cartesian points -> SVG path / SVG.   *)
(*                                                                         *)
(* The model follows src/unnamed/part_001 (the version whose option is     *)
(* named `scale`).  JavaScript numbers are modelled as exact rationals     *)
(* extended with NaN, +Infinity, -Infinity and undefined; floating-point   *)
(* rounding error is not modelled.  The geolib functions getBounds,        *)
(* getDistance and getDistanceFromLine are modelled on a small-area plane  *)
(* grid: one grid unit of latitude or longitude is MetresPerUnit metres.   *)
(***************************************************************************)
EXTENDS Integers, Sequences, FiniteSets, TLC

(***************************************************************************)
(* Bounds of the model.                                                    *)
(***************************************************************************)
MaxCoord == 2
MaxLen == 3
MaxSessionLen == 2
MaxPlane == 1
MaxPathLen == 3

(***************************************************************************)
(* JavaScript numbers.                                                     *)
(***************************************************************************)
Abs(i) == IF i < 0 THEN -i ELSE i

RECURSIVE Gcd(_, _)
Gcd(a, b) == IF b = 0 THEN a ELSE Gcd(b, a % b)

Undef == [k |-> "undef", n |-> 0, d |-> 1]
NaN == [k |-> "nan", n |-> 0, d |-> 1]
PInf == [k |-> "pinf", n |-> 0, d |-> 1]
NInf == [k |-> "ninf", n |-> 0, d |-> 1]

\* the rational n/d, d > 0, divided through by g
Reduced(n, d, g) == [k |-> "fin", n |-> n \div g, d |-> d \div g]

\* the rational n/d in lowest terms with a positive denominator
Rat(n, d) ==
  IF d < 0 THEN Reduced(-n, -d, Gcd(Abs(n), Abs(d)))
  ELSE Reduced(n, d, Gcd(Abs(n), Abs(d)))

Num(i) == Rat(i, 1)
Zero == Num(0)

IsFin(x) == x.k = "fin"
IsNaN(x) == x.k = "nan"
IsInf(x) == x.k \in {"pinf", "ninf"}
\* sign of a value that is not NaN: -1, 0 or 1
Sgn(x) ==
  CASE x.k = "pinf" -> 1
    [] x.k = "ninf" -> -1
    [] OTHER -> IF x.n > 0 THEN 1 ELSE IF x.n < 0 THEN -1 ELSE 0
SignedInf(s) == IF s > 0 THEN PInf ELSE NInf

\* arithmetic on undefined is arithmetic on NaN
ToNumber(x) == IF x.k = "undef" THEN NaN ELSE x

NegNum(x) ==
  CASE x.k = "nan" -> NaN
    [] x.k = "pinf" -> NInf
    [] x.k = "ninf" -> PInf
    [] OTHER -> Rat(-x.n, x.d)

Neg(a) == NegNum(ToNumber(a))

AddNum(x, y) ==
  CASE IsNaN(x) \/ IsNaN(y) -> NaN
    [] IsInf(x) /\ IsInf(y) -> IF x.k = y.k THEN x ELSE NaN
    [] IsInf(x) -> x
    [] IsInf(y) -> y
    [] OTHER -> Rat(x.n * y.d + y.n * x.d, x.d * y.d)

Add(a, b) == AddNum(ToNumber(a), ToNumber(b))

Sub(a, b) == AddNum(ToNumber(a), NegNum(ToNumber(b)))

MulNum(x, y) ==
  CASE IsNaN(x) \/ IsNaN(y) -> NaN
    [] IsInf(x) \/ IsInf(y) ->
         IF Sgn(x) * Sgn(y) = 0 THEN NaN ELSE SignedInf(Sgn(x) * Sgn(y))
    [] OTHER -> Rat(x.n * y.n, x.d * y.d)

Mul(a, b) == MulNum(ToNumber(a), ToNumber(b))

DivNum(x, y) ==
  CASE IsNaN(x) \/ IsNaN(y) -> NaN
    [] IsInf(x) /\ IsInf(y) -> NaN
    [] IsInf(x) -> SignedInf(Sgn(x) * (IF Sgn(y) < 0 THEN -1 ELSE 1))
    [] IsInf(y) -> Zero
    [] y.n = 0 -> IF x.n = 0 THEN NaN ELSE SignedInf(Sgn(x))
    [] OTHER -> Rat(x.n * y.d, x.d * y.n)

Div(a, b) == DivNum(ToNumber(a), ToNumber(b))

\* x > y for numbers: false when either side is NaN
GtNum(x, y) ==
  CASE IsNaN(x) \/ IsNaN(y) -> FALSE
    [] x.k = "ninf" \/ y.k = "pinf" -> FALSE
    [] x.k = "pinf" \/ y.k = "ninf" -> TRUE
    [] OTHER -> x.n * y.d > y.n * x.d

Gt(a, b) == GtNum(ToNumber(a), ToNumber(b))

\* a >= b: false when either side is NaN
Ge(a, b) == Gt(a, b) \/ (ToNumber(a) = ToNumber(b) /\ ~IsNaN(ToNumber(a)))

\* Math.max(a, b)
MaxNum(x, y) ==
  IF IsNaN(x) \/ IsNaN(y) THEN NaN ELSE IF GtNum(y, x) THEN y ELSE x

MathMax(a, b) == MaxNum(ToNumber(a), ToNumber(b))

\* Math.round(x): the nearest integer, halves rounded up
RoundNum(x) == IF IsFin(x) THEN Num((2 * x.n + x.d) \div (2 * x.d)) ELSE x

MathRound(a) == RoundNum(ToNumber(a))

\* a ?? b
Coalesce(a, b) == IF a.k = "undef" THEN b ELSE a

(***************************************************************************)
(* geolib on the plane grid.  A Coordinates value is a record of integer   *)
(* grid latitude and longitude.                                            *)
(***************************************************************************)
MetresPerUnit == 4

Coordinates == [latitude : 0..MaxCoord, longitude : 0..MaxCoord]

RECURSIVE SeqMax(_, _)
SeqMax(s, i) ==
  IF i = 1 THEN s[1]
  ELSE LET m == SeqMax(s, i - 1) IN IF s[i] > m THEN s[i] ELSE m

RECURSIVE SeqMin(_, _)
SeqMin(s, i) ==
  IF i = 1 THEN s[1]
  ELSE LET m == SeqMin(s, i - 1) IN IF s[i] < m THEN s[i] ELSE m

\* getBounds(points) for a non-empty list; the empty list makes getBounds throw
getBounds(pts) ==
  [maxLat |-> SeqMax([i \in DOMAIN pts |-> pts[i].latitude], Len(pts)),
   minLat |-> SeqMin([i \in DOMAIN pts |-> pts[i].latitude], Len(pts)),
   maxLng |-> SeqMax([i \in DOMAIN pts |-> pts[i].longitude], Len(pts)),
   minLng |-> SeqMin([i \in DOMAIN pts |-> pts[i].longitude], Len(pts))]

\* Math.round(distance / accuracy) * accuracy
RoundTo(distance, accuracy) == Mul(MathRound(Div(distance, accuracy)), accuracy)

\* getDistance(from, to, accuracy) for two points that share a latitude or a
\* longitude, which is all this program measures; accuracy defaults to 1
getDistance(from, to, accuracy) ==
  RoundTo(Num(MetresPerUnit * (Abs(from.latitude - to.latitude)
                               + Abs(from.longitude - to.longitude))),
          Coalesce(accuracy, Num(1)))

\* the point of the line lineStart-lineEnd nearest to point
Foot(point, lineStart, lineEnd) ==
  IF lineStart.longitude = lineEnd.longitude
  THEN [latitude |-> point.latitude, longitude |-> lineStart.longitude]
  ELSE [latitude |-> lineStart.latitude, longitude |-> point.longitude]

\* getDistanceFromLine(point, lineStart, lineEnd, accuracy, lib) for a line
\* along a side of the bounding box and a point inside the box: the
\* perpendicular offset of the point from the line.  Where the line has no
\* length (d3 = 0) or the point is the line's start (d1 = 0) the result
\* depends on the geolib release installed: "formula" evaluates
\* sin(alpha) * d1 with cos(alpha) = (d1^2 + d3^2 - d2^2) / (2 * d1 * d3),
\* which is NaN there; "guarded" returns d1 for a line without length and 0
\* for a point at an end of the line.
getDistanceFromLine(point, lineStart, lineEnd, accuracy, lib) ==
  IF lineStart = lineEnd
  THEN (IF lib = "guarded" THEN getDistance(lineStart, point, accuracy) ELSE NaN)
  ELSE IF point = lineStart THEN (IF lib = "guarded" THEN Zero ELSE NaN)
  ELSE getDistance(Foot(point, lineStart, lineEnd), point, accuracy)

(***************************************************************************)
(* Options.                                                                *)
(***************************************************************************)
NoSvgOptions ==
  [width |-> Undef, height |-> Undef, stroke |-> "undefined",
   strokeWidth |-> Undef, strokeLinecap |-> "undefined",
   strokeMiterlimit |-> Undef, fill |-> "undefined"]

\* the module-level defaultOptions object as the module creates it
InitDefaultOptions ==
  [smooth |-> TRUE, smoothing |-> Rat(2, 10), accuracy |-> Rat(1, 1000),
   scale |-> Undef,
   svg |-> [width |-> Undef, height |-> Undef, stroke |-> "red",
            strokeWidth |-> Num(4), strokeLinecap |-> "round",
            strokeMiterlimit |-> Num(4), fill |-> "none"]]

\* no options argument
NoOptions == [undefined |-> TRUE]

StrOr(a, b) == IF a = "undefined" THEN b ELSE a

\* getOptions(supplied): a new object, the defaults overridden by what the
\* caller supplied, the svg sub-record merged the same way
getOptions(supplied, defaults) ==
  IF supplied = NoOptions THEN defaults
  ELSE [smooth |-> supplied.smooth,
        smoothing |-> Coalesce(supplied.smoothing, defaults.smoothing),
        accuracy |-> Coalesce(supplied.accuracy, defaults.accuracy),
        scale |-> Coalesce(supplied.scale, defaults.scale),
        svg |-> [width |-> Coalesce(supplied.svg.width, defaults.svg.width),
                 height |-> Coalesce(supplied.svg.height, defaults.svg.height),
                 stroke |-> StrOr(supplied.svg.stroke, defaults.svg.stroke),
                 strokeWidth |->
                   Coalesce(supplied.svg.strokeWidth, defaults.svg.strokeWidth),
                 strokeLinecap |->
                   StrOr(supplied.svg.strokeLinecap, defaults.svg.strokeLinecap),
                 strokeMiterlimit |->
                   Coalesce(supplied.svg.strokeMiterlimit,
                            defaults.svg.strokeMiterlimit),
                 fill |-> StrOr(supplied.svg.fill, defaults.svg.fill)]]

(***************************************************************************)
(* getSvgPath.  The path string is modelled as its sequence of commands,   *)
(* each a command letter and the numbers that follow it; the empty string  *)
(* is the empty sequence.                                                  *)
(***************************************************************************)
UndefinedPoint == [x |-> Undef, y |-> Undef]

\* points[i] of a JavaScript array (0-based): undefined outside the array
At(pts, i) == IF i >= 0 /\ i < Len(pts) THEN pts[i + 1] ELSE UndefinedPoint

\* Polar with the reverse flag ignored
PolarForward(lengthX, lengthY, reverse, smoothing) ==
  IF IsFin(lengthX) /\ IsFin(lengthY)
  THEN [x |-> Mul(lengthX, smoothing), y |-> Mul(lengthY, smoothing)]
  ELSE [x |-> NaN, y |-> NaN]

\* (cos(angle) * length, sin(angle) * length) for angle = atan2(lengthY, lengthX)
\* (+ PI when reverse) and length = sqrt(lengthX^2 + lengthY^2) * smoothing:
\* the vector (lengthX, lengthY) * smoothing, negated when reverse
Polar(lengthX, lengthY, reverse, smoothing) ==
  IF IsFin(lengthX) /\ IsFin(lengthY)
  THEN IF reverse
       THEN [x |-> Neg(Mul(lengthX, smoothing)), y |-> Neg(Mul(lengthY, smoothing))]
       ELSE [x |-> Mul(lengthX, smoothing), y |-> Mul(lengthY, smoothing)]
  ELSE [x |-> NaN, y |-> NaN]

\* current moved by the offset
Shift(current, offset) ==
  [x |-> Add(current.x, offset.x), y |-> Add(current.y, offset.y)]

\* controlPoint after previous ??= current and next ??= current
ControlOffset(current, previous, next, reverse, smoothing) ==
  Shift(current,
        Polar(Sub(next.x, previous.x), Sub(next.y, previous.y),
              reverse, smoothing))

controlPoint(current, previous, next, reverse, smoothing) ==
  ControlOffset(current,
                IF previous = UndefinedPoint THEN current ELSE previous,
                IF next = UndefinedPoint THEN current ELSE next,
                reverse, smoothing)

\* the "C" command for its two control points and its end point
CurveTo(cps, cpe, point) ==
  [cmd |-> "C", args |-> <<cps.x, cps.y, cpe.x, cpe.y, point.x, point.y>>]

\* curved with the start control point taken at the arriving point
curvedAtPoint(pts, point, index, smoothing) ==
  CurveTo(controlPoint(point, At(pts, index - 2), point, FALSE, smoothing),
          controlPoint(point, At(pts, index - 1), At(pts, index + 1),
                       TRUE, smoothing),
          point)

curved(pts, point, index, smoothing) ==
  CurveTo(controlPoint(At(pts, index - 1), At(pts, index - 2), point,
                       FALSE, smoothing),
          controlPoint(point, At(pts, index - 1), At(pts, index + 1),
                       TRUE, smoothing),
          point)

\* straight with the two coordinates written in the wrong order
straightSwapped(point) == [cmd |-> "L", args |-> <<point.y, point.x>>]

straight(point) == [cmd |-> "L", args |-> <<point.x, point.y>>]

\* the command the callback appends for the point at index > 0
Segment(pts, point, index, smooth, smoothing) ==
  IF smooth THEN curved(pts, point, index, smoothing) ELSE straight(point)

\* PathStep with the accumulator left out of the template string
PathStepNoAcc(acc, pts, index, smooth, smoothing) ==
  IF index = 0
  THEN <<[cmd |-> "M", args |-> <<At(pts, index).x, At(pts, index).y>>]>>
  ELSE <<Segment(pts, At(pts, index), index, smooth, smoothing)>>

\* one step of the reduce callback, index 0-based
PathStep(acc, pts, index, smooth, smoothing) ==
  IF index = 0
  THEN <<[cmd |-> "M", args |-> <<At(pts, index).x, At(pts, index).y>>]>>
  ELSE Append(acc, Segment(pts, At(pts, index), index, smooth, smoothing))

\* points.reduce(callback, "") over the first n points
RECURSIVE PathReduce(_, _, _, _)
PathReduce(pts, n, smooth, smoothing) ==
  IF n = 0 THEN <<>>
  ELSE PathStep(PathReduce(pts, n - 1, smooth, smoothing), pts, n - 1,
                smooth, smoothing)

getSvgPath(pts, smooth, smoothing) == PathReduce(pts, Len(pts), smooth, smoothing)

(***************************************************************************)
(* generateCartesianDetails(points, options), options being the object     *)
(* the function works on (the caller's, or defaultOptions when none was    *)
(* passed).  The result carries the object as the function leaves it.      *)
(***************************************************************************)
NoDetails(options, error) ==
  [thrown |-> error, options |-> options,
   absoluteWidth |-> Undef, absoluteHeight |-> Undef, multiplier |-> Undef,
   points |-> <<>>, width |-> Undef, height |-> Undef]

\* ScaledSize with the comparison the wrong way round
ScaledSizeReversed(scale, absoluteWidth, absoluteHeight) ==
  IF Gt(absoluteHeight, absoluteWidth)
  THEN <<scale, Mul(scale, Div(absoluteHeight, absoluteWidth))>>
  ELSE <<Mul(scale, Div(absoluteWidth, absoluteHeight)), scale>>

\* [width, height] for the scale and the two absolute extents
ScaledSize(scale, absoluteWidth, absoluteHeight) ==
  IF Gt(absoluteWidth, absoluteHeight)
  THEN <<scale, Mul(scale, Div(absoluteHeight, absoluteWidth))>>
  ELSE <<Mul(scale, Div(absoluteWidth, absoluteHeight)), scale>>

Multiplier(width, absoluteWidth) == Div(width, absoluteWidth)

\* CartesianPoint with the multiplier forgotten on y
CartesianPointUnscaledY(point, xAxis, yAxis, accuracy, multiplier, lib) ==
  [x |-> Mul(getDistanceFromLine(point, yAxis[1], yAxis[2], accuracy, lib),
             multiplier),
   y |-> getDistanceFromLine(point, xAxis[1], xAxis[2], accuracy, lib)]

\* one element of points.map(...)
CartesianPoint(point, xAxis, yAxis, accuracy, multiplier, lib) ==
  [x |-> Mul(getDistanceFromLine(point, yAxis[1], yAxis[2], accuracy, lib),
             multiplier),
   y |-> Mul(getDistanceFromLine(point, xAxis[1], xAxis[2], accuracy, lib),
             multiplier)]

\* options.scale ??= Math.max(absoluteWidth, absoluteHeight)
DefaultScale(options, absoluteWidth, absoluteHeight) ==
  [options EXCEPT
     !.scale = Coalesce(options.scale, MathMax(absoluteWidth, absoluteHeight))]

\* the return statement, and the options object as the function leaves it
Details(pts, scaled, lib, xAxis, yAxis, absoluteWidth, absoluteHeight, size, multiplier) ==
  [thrown |-> "", options |-> scaled,
   absoluteWidth |-> absoluteWidth, absoluteHeight |-> absoluteHeight,
   multiplier |-> multiplier,
   points |-> [i \in DOMAIN pts |->
                CartesianPoint(pts[i], xAxis, yAxis, scaled.accuracy,
                               multiplier, lib)],
   width |-> size[1], height |-> size[2]]

\* from [width, height] on
Sized(pts, scaled, lib, xAxis, yAxis, absoluteWidth, absoluteHeight, size) ==
  Details(pts, scaled, lib, xAxis, yAxis, absoluteWidth, absoluteHeight, size,
          Multiplier(size[1], absoluteWidth))

\* from options.scale ??= ... on
Scaled(pts, scaled, lib, xAxis, yAxis, absoluteWidth, absoluteHeight) ==
  Sized(pts, scaled, lib, xAxis, yAxis, absoluteWidth, absoluteHeight,
        ScaledSize(scaled.scale, absoluteWidth, absoluteHeight))

\* from the two absolute extents on
Measured(pts, options, lib, xAxis, yAxis, absoluteWidth, absoluteHeight) ==
  Scaled(pts, DefaultScale(options, absoluteWidth, absoluteHeight), lib,
         xAxis, yAxis, absoluteWidth, absoluteHeight)

\* from the two axes on
Framed(pts, options, lib, xAxis, yAxis) ==
  Measured(pts, options, lib, xAxis, yAxis,
           getDistance(xAxis[1], xAxis[2], options.accuracy),
           getDistance(yAxis[1], yAxis[2], options.accuracy))

\* xAxis = [corners.nw, corners.ne]
XAxis(bounds) ==
  <<[latitude |-> bounds.maxLat, longitude |-> bounds.minLng],
    [latitude |-> bounds.maxLat, longitude |-> bounds.maxLng]>>

\* yAxis = [corners.nw, corners.sw]
YAxis(bounds) ==
  <<[latitude |-> bounds.maxLat, longitude |-> bounds.minLng],
    [latitude |-> bounds.minLat, longitude |-> bounds.minLng]>>

\* from the bounds on
Bounded(pts, options, lib, bounds) ==
  Framed(pts, options, lib, XAxis(bounds), YAxis(bounds))

\* getBounds throws on an empty list, before options is touched
generateCartesianDetails(pts, options, lib) ==
  IF pts = <<>> THEN NoDetails(options, "No points were given.")
  ELSE Bounded(pts, options, lib, getBounds(pts))

\* what generateSvgPath returns for the details; the path is drawn with the
\* smooth and smoothing of the same options object
PathResult(details, options) ==
  [details |-> details,
   path |-> IF details.thrown = ""
            THEN getSvgPath(details.points, options.smooth, options.smoothing)
            ELSE <<>>,
   svg |-> NoSvgOptions]

generateSvgPath(pts, options, lib) ==
  PathResult(generateCartesianDetails(pts, options, lib), options)

\* the svg string as its attribute values
SvgString(svgWidth, svgHeight, d, svg) ==
  [width |-> svgWidth, height |-> svgHeight,
   viewBox |-> <<Zero, Zero, svgWidth, svgHeight>>, d |-> d,
   fill |-> svg.fill, stroke |-> svg.stroke, strokeWidth |-> svg.strokeWidth,
   strokeLinecap |-> svg.strokeLinecap,
   strokeMiterlimit |-> svg.strokeMiterlimit]

\* what generateSvg returns for the details
SvgResult(details, options) ==
  [details |-> details, path |-> <<>>,
   svg |-> IF details.thrown = ""
           THEN SvgString(Coalesce(options.svg.width, details.width),
                          Coalesce(options.svg.height, details.height),
                          getSvgPath(details.points, options.smooth,
                                     options.smoothing),
                          options.svg)
           ELSE NoSvgOptions]

generateSvg(pts, options, lib) ==
  SvgResult(generateCartesianDetails(pts, options, lib), options)

\* what generateCartesianDetails returns, in the shape of the other results
CartesianResult(details) ==
  [details |-> details, path |-> <<>>, svg |-> NoSvgOptions]

(***************************************************************************)
(* The program and its caller.                                             *)
(***************************************************************************)
VARIABLES
  geolib,          \* the geolib release installed: "formula" or "guarded"
  defaultOptions,  \* the module-level defaultOptions object
  points,          \* the Coordinates[] the caller holds
  opts,            \* the options object the caller holds, or NoOptions
  ret,             \* what the last call returned, with the locals it computed
  plane,           \* getSvgPath on its own: the CartesianPoint[] argument
  mode,            \* getSvgPath on its own: smooth and smoothing
  path             \* getSvgPath on its own: the returned path

vars == <<geolib, defaultOptions, points, opts, ret, plane, mode, path>>

GeolibReleases == {"formula", "guarded"}

\* the options objects a caller writes
OptionObjects ==
  [smooth : {FALSE}, smoothing : {Rat(2, 10)},
   accuracy : {Rat(1, 1000), Num(3)}, scale : {Undef, Num(1000)},
   svg : {NoSvgOptions}]

NoRet ==
  [kind |-> "none", via |-> "none", passed |-> NoOptions,
   details |-> NoDetails(NoOptions, ""), path |-> <<>>, svg |-> NoSvgOptions]

NoPath == [called |-> FALSE, d |-> <<>>]

Init ==
  /\ geolib \in GeolibReleases
  /\ defaultOptions = InitDefaultOptions
  /\ points = <<>>
  /\ opts = NoOptions
  /\ ret = NoRet
  /\ plane = <<>>
  /\ mode = [smooth |-> TRUE, smoothing |-> Rat(2, 10)]
  /\ path = NoPath

\* the caller builds its list of coordinates
PushPoint(p) ==
  /\ Len(points) < MaxSessionLen
  /\ points' = Append(points, p)
  /\ ret' = NoRet
  /\ UNCHANGED <<geolib, defaultOptions, opts, plane, mode, path>>

ClearPoints ==
  /\ points # <<>>
  /\ points' = <<>>
  /\ ret' = NoRet
  /\ UNCHANGED <<geolib, defaultOptions, opts, plane, mode, path>>

\* the caller writes a new options object, or drops the one it holds
NewOptions(o) ==
  /\ o # opts
  /\ opts' = o
  /\ ret' = NoRet
  /\ UNCHANGED <<geolib, defaultOptions, points, plane, mode, path>>

\* options ??= defaultOptions
Effective(options, defaults) == IF options = NoOptions THEN defaults ELSE options

\* a direct call works on the caller's object, or on defaultOptions itself
DirectCall(kind, r) ==
  /\ ret' = [kind |-> kind, via |-> "direct", passed |-> opts,
             details |-> r.details, path |-> r.path, svg |-> r.svg]
  /\ IF opts = NoOptions
     THEN defaultOptions' = r.details.options /\ opts' = opts
     ELSE opts' = r.details.options /\ defaultOptions' = defaultOptions
  /\ UNCHANGED <<geolib, points, plane, mode, path>>

CallGenerateCartesianDetails ==
  DirectCall("cartesian",
             CartesianResult(
               generateCartesianDetails(points, Effective(opts, defaultOptions),
                                        geolib)))

CallGenerateSvgPath ==
  DirectCall("path",
             generateSvgPath(points, Effective(opts, defaultOptions), geolib))

CallGenerateSvg ==
  DirectCall("svg", generateSvg(points, Effective(opts, defaultOptions), geolib))

\* a call through fromCoordinates(points) works on the object getOptions makes
OutputsCall(kind, r) ==
  /\ ret' = [kind |-> kind, via |-> "outputs", passed |-> opts,
             details |-> r.details, path |-> r.path, svg |-> r.svg]
  /\ UNCHANGED <<geolib, defaultOptions, opts, points, plane, mode, path>>

ToCartesianDetails ==
  OutputsCall("cartesian",
              CartesianResult(
                generateCartesianDetails(points, getOptions(opts, defaultOptions),
                                         geolib)))

ToSvgPath ==
  OutputsCall("path",
              generateSvgPath(points, getOptions(opts, defaultOptions), geolib))

ToSvg ==
  OutputsCall("svg", generateSvg(points, getOptions(opts, defaultOptions), geolib))

Next ==
  \/ \E p \in Coordinates : PushPoint(p)
  \/ ClearPoints
  \/ \E o \in OptionObjects \cup {NoOptions} : NewOptions(o)
  \/ CallGenerateCartesianDetails
  \/ CallGenerateSvgPath
  \/ CallGenerateSvg
  \/ ToCartesianDetails
  \/ ToSvgPath
  \/ ToSvg

Spec == Init /\ [][Next]_vars

(***************************************************************************)
(* The pipeline as a function of its inputs: any list of coordinates, any  *)
(* options object, and defaultOptions.scale as earlier calls can have left *)
(* it (undefined, or the larger extent of an earlier list).  One call.     *)
(***************************************************************************)
Tracks == UNION {[1..n -> Coordinates] : n \in 0..MaxLen}

DefaultScales == {Undef} \cup {Num(MetresPerUnit * k) : k \in 0..MaxCoord}

InitPipeline ==
  /\ geolib \in GeolibReleases
  /\ defaultOptions \in
       {[InitDefaultOptions EXCEPT !.scale = s] : s \in DefaultScales}
  /\ points \in Tracks
  /\ opts \in OptionObjects \cup {NoOptions}
  /\ ret = NoRet
  /\ plane = <<>>
  /\ mode = [smooth |-> TRUE, smoothing |-> Rat(2, 10)]
  /\ path = NoPath

NextPipeline ==
  \/ ret = NoRet /\ CallGenerateCartesianDetails
  \/ ret = NoRet /\ CallGenerateSvgPath
  \/ ret = NoRet /\ CallGenerateSvg
  \/ ret = NoRet /\ ToCartesianDetails
  \/ ret = NoRet /\ ToSvgPath
  \/ ret = NoRet /\ ToSvg

SpecPipeline == InitPipeline /\ [][NextPipeline]_vars

(***************************************************************************)
(* getSvgPath as a function of its inputs.                                 *)
(***************************************************************************)
PlanePoints == [x : {Num(i) : i \in 0..MaxPlane}, y : {Num(i) : i \in 0..MaxPlane}]

PlaneTracks == UNION {[1..n -> PlanePoints] : n \in 0..MaxPathLen}

InitPath ==
  /\ geolib = "formula"
  /\ defaultOptions = InitDefaultOptions
  /\ points = <<>>
  /\ opts = NoOptions
  /\ ret = NoRet
  /\ plane \in PlaneTracks
  /\ mode \in [smooth : BOOLEAN, smoothing : {Rat(2, 10), Rat(1, 2)}]
  /\ path = NoPath

CallGetSvgPath ==
  /\ ~path.called
  /\ path' = [called |-> TRUE, d |-> getSvgPath(plane, mode.smooth, mode.smoothing)]
  /\ UNCHANGED <<geolib, defaultOptions, points, opts, ret, plane, mode>>

NextPath == CallGetSvgPath

SpecPath == InitPath /\ [][NextPath]_vars

(***************************************************************************)
(* Properties.                                                             *)
(***************************************************************************)
Called == ret.kind # "none"
Returned == Called /\ ret.details.thrown = ""
ScaleSupplied == ret.passed # NoOptions /\ ret.passed.scale # Undef
PositiveBox ==
  /\ points # <<>>
  /\ getBounds(points).maxLat > getBounds(points).minLat
  /\ getBounds(points).maxLng > getBounds(points).minLng
PositiveExtents ==
  /\ Gt(ret.details.absoluteWidth, Zero)
  /\ Gt(ret.details.absoluteHeight, Zero)
\* all points on one latitude, or all on one longitude
Degenerate ==
  /\ points # <<>>
  /\ \/ getBounds(points).maxLat = getBounds(points).minLat
     \/ getBounds(points).maxLng = getBounds(points).minLng
DistinctPoints == Cardinality({points[i] : i \in DOMAIN points})
\* the unscaled distances of the i-th point from the y-axis and the x-axis
Unscaled(i) ==
  [x |-> getDistanceFromLine(points[i], YAxis(getBounds(points))[1],
                             YAxis(getBounds(points))[2],
                             ret.details.options.accuracy, geolib),
   y |-> getDistanceFromLine(points[i], XAxis(getBounds(points))[1],
                             XAxis(getBounds(points))[2],
                             ret.details.options.accuracy, geolib)]

\* C1: for a list whose bounding box has positive width and height, the
\* returned width and height are >= 0, and when the caller supplied a scale
\* the larger of width and height equals that scale.
C1_ExtentWithinScale ==
  (Returned /\ PositiveBox) =>
    /\ Ge(ret.details.width, Zero)
    /\ Ge(ret.details.height, Zero)
    /\ ScaleSupplied =>
         MathMax(ret.details.width, ret.details.height) = ret.passed.scale

C1_Witness ==
  /\ Returned /\ ret.kind = "cartesian" /\ PositiveBox /\ ScaleSupplied
  /\ Gt(ret.details.width, ret.details.height)

\* C10: with positive absoluteWidth and absoluteHeight the rescaling keeps the
\* aspect ratio, maps the longer absolute extent to scale, and multiplies the
\* x and the y of every point by the one multiplier
\* width / absoluteWidth = scale / max(absoluteWidth, absoluteHeight).
C10_OneMultiplier ==
  (Returned /\ PositiveExtents) =>
    LET d == ret.details
        scale == d.options.scale
    IN  /\ Mul(d.width, d.absoluteHeight) = Mul(d.height, d.absoluteWidth)
        /\ IF Gt(d.absoluteWidth, d.absoluteHeight) THEN d.width = scale
           ELSE d.height = scale
        /\ d.absoluteWidth = d.absoluteHeight => d.width = scale
        /\ d.multiplier = Div(d.width, d.absoluteWidth)
        /\ d.multiplier = Div(scale, MathMax(d.absoluteWidth, d.absoluteHeight))
        /\ Len(d.points) = Len(points)
        /\ \A i \in DOMAIN points :
             /\ d.points[i].x = Mul(Unscaled(i).x, d.multiplier)
             /\ d.points[i].y = Mul(Unscaled(i).y, d.multiplier)

C10_Witness ==
  /\ Returned /\ PositiveExtents /\ ScaleSupplied /\ Len(points) = MaxLen
  /\ Gt(ret.details.absoluteHeight, ret.details.absoluteWidth)
  /\ \E i \in DOMAIN ret.details.points :
       /\ Gt(ret.details.points[i].x, Zero)
       /\ Gt(ret.details.points[i].y, Zero)

\* what the caller receives from a call
Output(r) ==
  [thrown |-> r.details.thrown, points |-> r.details.points,
   width |-> r.details.width, height |-> r.details.height,
   path |-> r.path, svg |-> r.svg]

\* what the last call returns as the first call of a fresh program, with the
\* same points and the same options argument
FreshOptions ==
  IF ret.via = "direct" THEN Effective(ret.passed, InitDefaultOptions)
  ELSE getOptions(ret.passed, InitDefaultOptions)

FreshOutput ==
  CASE ret.kind = "cartesian" ->
         Output(CartesianResult(
                  generateCartesianDetails(points, FreshOptions, geolib)))
    [] ret.kind = "path" ->
         Output(generateSvgPath(points, FreshOptions, geolib))
    [] OTHER -> Output(generateSvg(points, FreshOptions, geolib))

\* C2: no state is shared between invocations: every call returns what the
\* same call, with the same points and options argument, returns as the
\* first call of a fresh program.
C2_NoSharedState == Called => Output(ret) = FreshOutput

\* C3: when all points share a latitude or all share a longitude,
\* generateCartesianDetails signals a failure instead of returning a result.
C3_DegenerateSignalled ==
  (Called /\ ret.kind = "cartesian" /\ Degenerate) => ret.details.thrown # ""

\* C4: with fewer than 2 distinct points generateCartesianDetails rejects
\* the input with an error instead of returning a result.
C4_InsufficientRejected ==
  (Called /\ ret.kind = "cartesian" /\ DistinctPoints < 2) =>
    ret.details.thrown # ""

\* C6: every plane point returned has x >= 0 and y >= 0, for every list of
\* points and every configuration.
C6_NonNegative ==
  Returned =>
    \A i \in DOMAIN ret.details.points :
      /\ Ge(ret.details.points[i].x, Zero)
      /\ Ge(ret.details.points[i].y, Zero)

\* C7: when the caller supplies no scale there is no rescaling: width is
\* absoluteWidth, height is absoluteHeight and the multiplier is 1, so every
\* point keeps its unscaled distances (stated for lists whose bounding box
\* has positive width and height).
C7_NoScaleNoRescaling ==
  (Returned /\ ~ScaleSupplied /\ PositiveBox) =>
    /\ ret.details.width = ret.details.absoluteWidth
    /\ ret.details.height = ret.details.absoluteHeight
    /\ ret.details.multiplier = Num(1)
    /\ \A i \in DOMAIN points :
         /\ ret.details.points[i].x = Unscaled(i).x
         /\ ret.details.points[i].y = Unscaled(i).y

\* C8: the options object the caller passed is, after the call, as it was
\* before the call.
C8_OptionsImmutable == (Called /\ ret.passed # NoOptions) => opts = ret.passed

(***************************************************************************)
(* The scenario [(0,0), (0,1), (1,1)], accuracy 0.001, scale 1000,         *)
(* smooth false, through generateSvgPath.                                  *)
(***************************************************************************)
ScenarioPoints ==
  <<[latitude |-> 0, longitude |-> 0], [latitude |-> 0, longitude |-> 1],
    [latitude |-> 1, longitude |-> 1]>>

ScenarioOptions ==
  [smooth |-> FALSE, smoothing |-> Rat(2, 10), accuracy |-> Rat(1, 1000),
   scale |-> Num(1000), svg |-> NoSvgOptions]

Scenario ==
  ret.kind = "path" /\ points = ScenarioPoints /\ ret.passed = ScenarioOptions

\* the move from one command's end point to the next command's end point
Leg(from, to) ==
  [dx |-> Sub(to.args[1], from.args[1]), dy |-> Sub(to.args[2], from.args[2])]
AxisAligned(leg) == (leg.dx = Zero) # (leg.dy = Zero)
Magnitude(leg) ==
  LET len == Add(leg.dx, leg.dy) IN IF Gt(Zero, len) THEN Neg(len) ELSE len

\* "M x0,y0 L ax,ay L bx,by" with width or height 1000 and two axis-aligned
\* legs of equal magnitude
ScenarioShape ==
  /\ ret.details.thrown = ""
  /\ ret.details.width = Num(1000) \/ ret.details.height = Num(1000)
  /\ Len(ret.path) = 3
  /\ <<ret.path[1].cmd, ret.path[2].cmd, ret.path[3].cmd>> = <<"M", "L", "L">>
  /\ AxisAligned(Leg(ret.path[1], ret.path[2]))
  /\ AxisAligned(Leg(ret.path[2], ret.path[3]))
  /\ Magnitude(Leg(ret.path[1], ret.path[2]))
       = Magnitude(Leg(ret.path[2], ret.path[3]))

\* C9 as stated: in the scenario the path is "M 0,0 L ax,ay L bx,by", the
\* first point at the plane origin, with width or height 1000 and two
\* axis-aligned legs of equal magnitude.
C9_FirstPointAtOrigin ==
  Scenario => ScenarioShape /\ ret.path[1].args = <<Zero, Zero>>

\* C9 amended: in the scenario the path is "M 0,h L ax,ay L bx,by" where h
\* is the returned height: the first point, the south-west corner of the
\* bounding box, lies at x = 0 on the bottom edge and the last point at
\* y = 0; width or height is 1000 and the two legs are axis-aligned and of
\* equal magnitude.
C9_FirstPointSouthWest ==
  Scenario =>
    /\ ScenarioShape
    /\ ret.path[1].args = <<Zero, ret.details.height>>
    /\ ret.path[3].args[2] = Zero

C9_Witness == Scenario /\ ret.via = "direct" /\ Len(ret.path) = 3

\* C5: getSvgPath returns the empty path for no points, and otherwise
\* "M x0,y0" followed by one command per remaining point in input order:
\* "L xi,yi" when smooth is false, a "C" with three coordinate pairs ending
\* in xi,yi when smooth is true.
C5_PathShape ==
  path.called =>
    LET n == Len(plane)
    IN  /\ Len(path.d) = n
        /\ n > 0 => path.d[1] = [cmd |-> "M", args |-> <<plane[1].x, plane[1].y>>]
        /\ \A i \in 2..n :
             IF mode.smooth
             THEN /\ path.d[i].cmd = "C"
                  /\ Len(path.d[i].args) = 6
                  /\ path.d[i].args[5] = plane[i].x
                  /\ path.d[i].args[6] = plane[i].y
             ELSE path.d[i] = [cmd |-> "L", args |-> <<plane[i].x, plane[i].y>>]

C5_Witness ==
  /\ path.called /\ mode.smooth /\ Len(plane) = MaxPathLen
  /\ Len(path.d) = MaxPathLen /\ path.d[MaxPathLen].cmd = "C"

(***************************************************************************)
(* The control points of the smoothed path.  Segment i (1-based, i >= 2)  *)
(* is the command path.d[i] that arrives at plane[i].                      *)
(***************************************************************************)
Smoothed == path.called /\ mode.smooth

\* a + smoothing * (to - from), coordinate by coordinate
Offset(a, from, to, smoothing) ==
  [x |-> Add(a.x, Mul(smoothing, Sub(to.x, from.x))),
   y |-> Add(a.y, Mul(smoothing, Sub(to.y, from.y)))]

\* a - smoothing * (to - from), coordinate by coordinate
OffsetBack(a, from, to, smoothing) ==
  [x |-> Sub(a.x, Mul(smoothing, Sub(to.x, from.x))),
   y |-> Sub(a.y, Mul(smoothing, Sub(to.y, from.y)))]

\* the neighbour two before segment i's end, or the one before at the start
Before(i) == IF i > 2 THEN plane[i - 2] ELSE plane[i - 1]
\* the neighbour after segment i's end, or the end itself at the end
After(i) == IF i < Len(plane) THEN plane[i + 1] ELSE plane[i]

StartControl(i) == [x |-> path.d[i].args[1], y |-> path.d[i].args[2]]
EndControl(i) == [x |-> path.d[i].args[3], y |-> path.d[i].args[4]]

\* C11: in smooth mode the start control point of every segment is
\* points[i-1] + smoothing * (points[i] - points[i-2]), points[i-2] replaced
\* by points[i-1] on the first segment, and the end control point is
\* points[i] - smoothing * (points[i+1] - points[i-1]), points[i+1] replaced
\* by points[i] on the last segment; where the two neighbours coincide the
\* control point is the current point itself.
C11_ControlPoints ==
  Smoothed =>
    \A i \in 2..Len(plane) :
      /\ StartControl(i) = Offset(plane[i - 1], Before(i), plane[i], mode.smoothing)
      /\ EndControl(i) = OffsetBack(plane[i], plane[i - 1], After(i), mode.smoothing)
      /\ Before(i) = plane[i] => StartControl(i) = plane[i - 1]
      /\ plane[i - 1] = After(i) => EndControl(i) = plane[i]

\* a full-length smoothed path whose first segment has a start control point
\* away from its point, whose last segment has an end control point away
\* from its point, and one of whose segments has coinciding neighbours
C11_Witness ==
  /\ Smoothed /\ Len(plane) = MaxPathLen /\ Len(path.d) = MaxPathLen
  /\ StartControl(2) # plane[1]
  /\ EndControl(MaxPathLen) # plane[MaxPathLen]
  /\ \E i \in 2..MaxPathLen : Before(i) = plane[i] /\ StartControl(i) = plane[i - 1]

\* twice the point, coordinate by coordinate
Twice(a) == [x |-> Mul(Num(2), a.x), y |-> Mul(Num(2), a.y)]
\* the sum of two points, coordinate by coordinate
Sum(a, b) == [x |-> Add(a.x, b.x), y |-> Add(a.y, b.y)]

\* C12: at every interior point of the smoothed path the end control point
\* of the arriving segment and the start control point of the leaving
\* segment are mirror images about the point: their sum is twice the point.
C12_MirroredTangents ==
  Smoothed =>
    \A i \in 2..(Len(plane) - 1) :
      Sum(EndControl(i), StartControl(i + 1)) = Twice(plane[i])

\* a smoothed path with an interior point whose two control points differ
\* from the point and from each other
C12_Witness ==
  /\ Smoothed /\ Len(plane) >= 3
  /\ \E i \in 2..(Len(plane) - 1) :
       /\ EndControl(i) # plane[i]
       /\ EndControl(i) # StartControl(i + 1)
       /\ Sum(EndControl(i), StartControl(i + 1)) = Twice(plane[i])

====
